---- MODULE Spec2Model ----
(***************************************************************************)
(* Model of kernels/volk/volk_32f_stddev_and_mean_32f_x2.h: the five       *)
(* implementations (generic, a_sse, a_sse4_1, a_avx, u_avx) of the kernel  *)
(* that computes the mean and the population standard deviation of a       *)
(* buffer of single-precision floats.                                      *)
(*                                                                         *)
(* A float is held as its IEEE-754 binary32 bit pattern, written as a      *)
(* signed integer: the magnitude is the low 31 bits of the pattern and the *)
(* integer's sign is the pattern's sign bit (1.0f is 1065353216, -1.0f is  *)
(* -1065353216).  -0.0f is not represented (it reads as +0.0f) and every   *)
(* NaN is the one pattern NaN.  Arithmetic is round-to-nearest-even, with  *)
(* subnormals and overflow to infinity, as the SSE/AVX units compute it.   *)
(***************************************************************************)
EXTENDS Integers, Naturals, Sequences, FiniteSets, TLC

(***************************************************************************)
(* binary32 arithmetic                                                     *)
(***************************************************************************)
Abs(x) == IF x < 0 THEN -x ELSE x

Sgn(x) == IF x < 0 THEN -1 ELSE 1

Hidden == 2^23

InfBits == 255 * 2^23

NaN == 255 * 2^23 + 2^22

IsNaN(b) == Abs(b) > InfBits

IsInf(b) == Abs(b) = InfBits

BitLen[n \in Nat] == IF n = 0 THEN 0 ELSE 1 + BitLen[n \div 2]

\* mantissa and exponent of a finite pattern: |value| = Mant * 2^Exp, with
\* the mantissa of a nonzero value normalised into [2^23, 2^24)
RawMant(b) == IF Abs(b) \div Hidden = 0 THEN Abs(b) ELSE (Abs(b) % Hidden) + Hidden

RawExp(b) == IF Abs(b) \div Hidden = 0 THEN -149 ELSE (Abs(b) \div Hidden) - 150

\* left shift that normalises a subnormal's mantissa
Shift(b) == IF Abs(b) >= Hidden \/ b = 0 THEN 0 ELSE 24 - BitLen[RawMant(b)]

Mant(b) == RawMant(b) * 2^Shift(b)

Exp(b) == RawExp(b) - Shift(b)

\* the pattern of s * m * 2^e, for m <= 2^24 already rounded and e >= -149
Encode(s, m, e) ==
    IF m = 0 THEN 0
    ELSE IF m = 2 * Hidden
         THEN (IF e + 151 >= 255 THEN s * InfBits ELSE s * ((e + 151) * Hidden))
    ELSE IF m < Hidden THEN s * m
    ELSE IF e + 150 >= 255 THEN s * InfBits
    ELSE s * ((e + 150) * Hidden + (m - Hidden))

\* round s * n * 2^e to nearest, ties to even; n < 2^30 carries in its lowest
\* bit the OR of every bit that was dropped below it
RoundPack[s \in Int, n \in Int, e \in Int] ==
    IF n = 0 THEN 0
    ELSE LET k0 == BitLen[n] - 24
             k == IF e + k0 < -149 THEN -149 - e ELSE k0
         IN  IF k <= 0 THEN Encode(s, n * 2^(-k), e + k)
             ELSE IF k > 30 THEN 0
             ELSE LET q == n \div 2^k
                      r == n % 2^k
                      half == 2^(k - 1)
                      up == IF r > half \/ (r = half /\ q % 2 = 1) THEN 1 ELSE 0
                  IN  Encode(s, q + up, e + k)

\* m shifted right by d places, the lost bits ORed into the lowest bit kept
ShiftJam[m \in Int, d \in Int] ==
    IF d > 27 THEN (IF m = 0 THEN 0 ELSE 1)
    ELSE LET v == m \div 2^d
         IN  IF m % 2^d # 0 /\ v % 2 = 0 THEN v + 1 ELSE v

IntToFloat[n \in Int] == RoundPack[Sgn(n), Abs(n), 0]

FNeg[x \in Int] == IF IsNaN(x) THEN NaN ELSE -x

FAdd[x \in Int, y \in Int] ==
    IF IsNaN(x) \/ IsNaN(y) THEN NaN
    ELSE IF IsInf(x) THEN (IF IsInf(y) /\ x # y THEN NaN ELSE x)
    ELSE IF IsInf(y) THEN y
    ELSE IF x = 0 THEN y
    ELSE IF y = 0 THEN x
    ELSE LET big == IF Exp(x) >= Exp(y) THEN x ELSE y
             sml == IF Exp(x) >= Exp(y) THEN y ELSE x
             d == Exp(big) - Exp(sml)
             sum == Sgn(big) * Mant(big) * 8 + Sgn(sml) * ShiftJam[Mant(sml) * 8, d]
         IN  RoundPack[Sgn(sum), Abs(sum), Exp(big) - 3]

FSub[x \in Int, y \in Int] == FAdd[x, FNeg[y]]

FMul[x \in Int, y \in Int] ==
    IF IsNaN(x) \/ IsNaN(y) THEN NaN
    ELSE IF IsInf(x) \/ IsInf(y)
         THEN (IF x = 0 \/ y = 0 THEN NaN ELSE Sgn(x) * Sgn(y) * InfBits)
    ELSE IF x = 0 \/ y = 0 THEN 0
    ELSE LET a1 == Mant(x) \div 2^12
             a0 == Mant(x) % 2^12
             b1 == Mant(y) \div 2^12
             b0 == Mant(y) % 2^12
             lo == a0 * b0
             mid == a1 * b0 + a0 * b1 + (lo \div 2^12)
             H == a1 * b1 + (mid \div 2^12)
             L == (mid % 2^12) * 2^12 + (lo % 2^12)
             n == (H * 32 + (L \div 2^19)) * 2 + (IF L % 2^19 # 0 THEN 1 ELSE 0)
         IN  RoundPack[Sgn(x) * Sgn(y), n, Exp(x) + Exp(y) + 18]

\* long division: i more quotient bits of r / d appended to q
DivBits[q \in Nat, r \in Nat, d \in Nat, i \in Nat] ==
    IF i = 0 THEN 2 * q + (IF r # 0 THEN 1 ELSE 0)
    ELSE IF 2 * r >= d THEN DivBits[2 * q + 1, 2 * r - d, d, i - 1]
    ELSE DivBits[2 * q, 2 * r, d, i - 1]

FDiv[x \in Int, y \in Int] ==
    IF IsNaN(x) \/ IsNaN(y) THEN NaN
    ELSE IF IsInf(x) THEN (IF IsInf(y) THEN NaN ELSE Sgn(x) * Sgn(y) * InfBits)
    ELSE IF IsInf(y) THEN 0
    ELSE IF y = 0 THEN (IF x = 0 THEN NaN ELSE Sgn(x) * InfBits)
    ELSE IF x = 0 THEN 0
    ELSE RoundPack[Sgn(x) * Sgn(y),
                   DivBits[Mant(x) \div Mant(y), Mant(x) % Mant(y), Mant(y), 26],
                   Exp(x) - Exp(y) - 27]

\* digit-by-digit square root of m * 4^z: the pairs of bits of m from pair i
\* down, then z pairs of zeros; q is the root so far and r the remainder
SqrtBits[q \in Nat, r \in Nat, m \in Nat, i \in Int, z \in Nat] ==
    IF i < 0 /\ z = 0 THEN 2 * q + (IF r # 0 THEN 1 ELSE 0)
    ELSE LET pair == IF i >= 0 THEN (m \div 4^i) % 4 ELSE 0
             rr == 4 * r + pair
             t == 4 * q + 1
         IN  IF rr >= t
             THEN SqrtBits[2 * q + 1, rr - t, m, i - 1, IF i >= 0 THEN z ELSE z - 1]
             ELSE SqrtBits[2 * q, rr, m, i - 1, IF i >= 0 THEN z ELSE z - 1]

FSqrt[x \in Int] ==
    IF IsNaN(x) \/ x < 0 THEN NaN
    ELSE IF x = 0 \/ IsInf(x) THEN x
    ELSE LET odd == Exp(x) % 2 = 1
             m == IF odd THEN 2 * Mant(x) ELSE Mant(x)
             e == IF odd THEN Exp(x) - 1 ELSE Exp(x)
         IN  RoundPack[1, SqrtBits[0, 0, m, 12, 14], (e \div 2) - 15]

BitOr[a \in Nat, b \in Nat] ==
    IF a = 0 THEN b
    ELSE IF b = 0 THEN a
    ELSE 2 * BitOr[a \div 2, b \div 2] + (IF a % 2 = 1 \/ b % 2 = 1 THEN 1 ELSE 0)

\* bitwise OR of two patterns
FOr[x \in Int, y \in Int] == (IF x < 0 \/ y < 0 THEN -1 ELSE 1) * BitOr[Abs(x), Abs(y)]

(***************************************************************************)
(* Input families.  A pattern names the contents of the caller's memory:   *)
(* Sample(pat, i) is the float at index i.                                 *)
(***************************************************************************)
MaxN == 65

RampEdge == 369

WinLen == 12

Tenth == 123 * 2^23 + 5033165

IntPatterns ==
    {<<"ramp", s>> : s \in {0, 1}}
        \cup {<<"window", b>> : b \in 0..((MaxN + WinLen - 1) \div WinLen - 1)}
        \cup {<<"mixed", s>> : s \in {0, 1}}
        \cup {<<"const", c>> : c \in {5, -3}}

Patterns == IntPatterns \cup {<<"tenth", 0>>}

\* the integer held at index i by an integer-valued pattern
IntOf(pat, i) ==
    CASE pat[1] = "ramp" -> i + pat[2]
      [] pat[1] = "window" -> IF i \div WinLen = pat[2] THEN 2^(i % WinLen) ELSE 0
      [] pat[1] = "mixed" -> ((7 * i + 3 * pat[2]) % 11) - 5
      [] pat[1] = "const" -> pat[2]

Sample(pat, i) == IF pat[1] = "tenth" THEN Tenth ELSE IntToFloat[IntOf(pat, i)]

(***************************************************************************)
(* The kernel.  A call is [variant, num_points, inputBuffer, stddev, mean] *)
(* with inputBuffer an index into memory and stddev, mean two addresses of *)
(* out.  fr is the record of the call's local variables.                   *)
(***************************************************************************)
Variants == {"generic", "a_sse", "a_sse4_1", "a_avx", "u_avx"}

Vectorized(v) == v # "generic"

UsesDp(v) == v \in {"a_sse4_1", "a_avx", "u_avx"}

\* floats in one vector register: __m256 for the AVX variants, __m128 otherwise
Width(v) == IF v \in {"a_avx", "u_avx"} THEN 8 ELSE 4

\* mutant: the AVX variants advance by 4, as the SSE variants do
AdvanceMut(v) == 4

\* the literal of aPtr += ... after each load
Advance(v) == IF v \in {"a_avx", "u_avx"} THEN 8 ELSE 4

\* loads in one iteration of the vector loop
Unroll(v) == IF v = "a_sse" THEN 1 ELSE 4

\* mutant: a_sse4_1 divides by 4, as a_sse does
GroupDivisorMut(v) ==
    CASE v \in {"a_avx", "u_avx"} -> 32
      [] v \in {"a_sse", "a_sse4_1"} -> 4
      [] OTHER -> 1

\* the literal of thirtySecondthPoints, sixteenthPoints, quarterPoints
GroupDivisor(v) ==
    CASE v \in {"a_avx", "u_avx"} -> 32
      [] v = "a_sse4_1" -> 16
      [] v = "a_sse" -> 4
      [] OTHER -> 1

Groups(v, n) == n \div GroupDivisor(v)

\* number = thirtySecondthPoints * 32, before the tail loop
TailStartMul(v) ==
    CASE v \in {"a_avx", "u_avx"} -> 32
      [] v = "a_sse4_1" -> 16
      [] v = "a_sse" -> 4
      [] OTHER -> 0

TailStart(v, n) == Groups(v, n) * TailStartMul(v)

\* the load instruction faults on an address that is not a multiple of this
Alignment(v) ==
    CASE v = "a_avx" -> 8
      [] v \in {"a_sse", "a_sse4_1"} -> 4
      [] OTHER -> 1

\* mutant: the guard lets num_points = 0 through
HasPointsMut(n) == n >= 0

HasPoints(n) == n > 0

\* a pattern no operation produces: the content of storage not yet written
Poison == NaN + 1

ReadMem(mem, i) == IF i \in DOMAIN mem THEN mem[i] ELSE Poison

mm_setzero_ps(w) == [l \in 1..w |-> 0]

mm_load_ps(mem, p, w) == [l \in 1..w |-> ReadMem(mem, p + l - 1)]

mm_add_ps(a, b) == [l \in DOMAIN a |-> FAdd[a[l], b[l]]]

mm_mul_ps(a, b) == [l \in DOMAIN a |-> FMul[a[l], b[l]]]

mm_or_ps(a, b) == [l \in DOMAIN a |-> FOr[a[l], b[l]]]

Bit(imm, i) == (imm \div 2^i) % 2 = 1

\* dot product of each 128-bit half: bits 4..7 of imm choose the products
\* that are summed, bits 0..3 the lanes of the half that receive the sum
mm_dp_ps(a, b, imm) ==
    [l \in DOMAIN a |->
        LET h == 4 * ((l - 1) \div 4)
            t(i) == IF Bit(imm, 4 + i) THEN FMul[a[h + i + 1], b[h + i + 1]] ELSE 0
        IN  IF Bit(imm, (l - 1) % 4)
            THEN FAdd[FAdd[t(0), t(1)], FAdd[t(2), t(3)]]
            ELSE 0]

\* mutant: every dot product stores to lane 0 (0xF1)
DpMaskMut(k) == 240 + 1

\* the immediate of the k-th dot product of an iteration: 0xF1 0xF2 0xF4 0xF8
DpMask(k) == 240 + 2^(k - 1)

EnterFrame(c) ==
    [number |-> 0,
     aPtr |-> c.inputBuffer,
     accumulator |-> mm_setzero_ps(Width(c.variant)),
     squareAccumulator |-> mm_setzero_ps(Width(c.variant)),
     meanBuffer |-> [l \in 1..Width(c.variant) |-> Poison],
     squareBuffer |-> [l \in 1..Width(c.variant) |-> Poison],
     newMean |-> 0,
     stdDev |-> 0]

\* the frame of a call that has not started, or that found num_points = 0
IdleFrame(c) ==
    [EnterFrame(c) EXCEPT !.accumulator = [l \in 1..Width(c.variant) |-> Poison],
                          !.squareAccumulator = [l \in 1..Width(c.variant) |-> Poison]]

\* aVal1..aVal4 of one iteration
Loaded(c, fr, mem) ==
    [k \in 1..Unroll(c.variant) |->
        mm_load_ps(mem, fr.aPtr + (k - 1) * Advance(c.variant), Width(c.variant))]

\* cVal1..cVal4 as the dot products leave them, before the ORs
DpResults(c, fr, mem) ==
    [k \in 1..Unroll(c.variant) |->
        mm_dp_ps(Loaded(c, fr, mem)[k], Loaded(c, fr, mem)[k], DpMask(k))]

MergeDp(cv) == mm_or_ps(mm_or_ps(cv[1], cv[2]), mm_or_ps(cv[3], cv[4]))

DpVecBody(c, fr, mem) ==
    LET a == Loaded(c, fr, mem)
        cv == DpResults(c, fr, mem)
    IN  [fr EXCEPT
            !.accumulator = mm_add_ps(mm_add_ps(mm_add_ps(mm_add_ps(@, a[1]), a[2]), a[3]), a[4]),
            !.squareAccumulator = mm_add_ps(@, MergeDp(cv)),
            !.aPtr = @ + Advance(c.variant) + Advance(c.variant)
                       + Advance(c.variant) + Advance(c.variant),
            !.number = @ + 1]

SseVecBody(c, fr, mem) ==
    LET aVal == mm_load_ps(mem, fr.aPtr, Width(c.variant))
    IN  [fr EXCEPT
            !.accumulator = mm_add_ps(@, aVal),
            !.squareAccumulator = mm_add_ps(@, mm_mul_ps(aVal, aVal)),
            !.aPtr = @ + Advance(c.variant),
            !.number = @ + 1]

VecBody(c, fr, mem) ==
    IF UsesDp(c.variant) THEN DpVecBody(c, fr, mem) ELSE SseVecBody(c, fr, mem)

\* mutant: the fourth line of the reduction adds lane 2 again
RECURSIVE HSumMut(_, _)
HSumMut(buf, n) ==
    IF n = 1 THEN buf[1] ELSE FAdd[HSumMut(buf, n - 1), buf[IF n = 4 THEN 3 ELSE n]]

\* newMean = meanBuffer[0]; newMean += meanBuffer[1]; ...
RECURSIVE HSum(_, _)
HSum(buf, n) == IF n = 1 THEN buf[1] ELSE FAdd[HSum(buf, n - 1), buf[n]]

\* mutant: the lanes of the sum are never added into newMean
ReduceFrameMut(c, fr) ==
    [fr EXCEPT !.meanBuffer = fr.accumulator,
               !.squareBuffer = fr.squareAccumulator,
               !.stdDev = HSum(fr.squareAccumulator, Width(c.variant)),
               !.number = TailStart(c.variant, c.num_points)]

ReduceFrame(c, fr) ==
    [fr EXCEPT !.meanBuffer = fr.accumulator,
               !.squareBuffer = fr.squareAccumulator,
               !.newMean = HSum(fr.accumulator, Width(c.variant)),
               !.stdDev = HSum(fr.squareAccumulator, Width(c.variant)),
               !.number = TailStart(c.variant, c.num_points)]

TailBody(c, fr, mem) ==
    [fr EXCEPT !.stdDev = FAdd[@, FMul[ReadMem(mem, fr.aPtr), ReadMem(mem, fr.aPtr)]],
               !.newMean = FAdd[@, ReadMem(mem, fr.aPtr)],
               !.aPtr = @ + 1,
               !.number = @ + 1]

\* mutant: the sample form, dividing by num_points - 1
DivisorMut(n) == IntToFloat[n - 1]

Divisor(n) == IntToFloat[n]

MomentsFrame(c, fr) ==
    LET m == FDiv[fr.newMean, Divisor(c.num_points)]
    IN  [fr EXCEPT !.newMean = m,
                   !.stdDev = FSub[FDiv[@, Divisor(c.num_points)], FMul[m, m]]]

SqrtFrame(fr) == [fr EXCEPT !.stdDev = FSqrt[@]]

(***************************************************************************)
(* One call run from entry to return with nothing else running.            *)
(***************************************************************************)
RECURSIVE RunVec(_, _, _)
RunVec(c, fr, mem) ==
    IF fr.number < Groups(c.variant, c.num_points)
    THEN RunVec(c, VecBody(c, fr, mem), mem)
    ELSE fr

RECURSIVE RunTail(_, _, _)
RunTail(c, fr, mem) ==
    IF fr.number < c.num_points THEN RunTail(c, TailBody(c, fr, mem), mem) ELSE fr

\* the locals when the tail loop exits: newMean is the sum, stdDev the sum of squares
Totals(c, mem) ==
    IF Vectorized(c.variant)
    THEN RunTail(c, ReduceFrame(c, RunVec(c, EnterFrame(c), mem)), mem)
    ELSE RunTail(c, EnterFrame(c), mem)

\* the locals at the two stores to *stddev and *mean
Result(c, mem) ==
    IF HasPoints(c.num_points)
    THEN SqrtFrame(MomentsFrame(c, Totals(c, mem)))
    ELSE IdleFrame(c)

(***************************************************************************)
(* State.                                                                  *)
(*   memory  the caller's float storage, indexed from 0                    *)
(*   call    the arguments of each invocation                              *)
(*   pc      where each invocation stands                                  *)
(*   frame   the local variables, one record per stack frame               *)
(*   out     the caller's output locations, by address                     *)
(*   writes  how many times each output location was stored to            *)
(*   hist    per invocation, what it has done so far: the indices it read  *)
(*           (relative to its inputBuffer), the loop iterations and the    *)
(*           reduction in the order they ran, the divisions executed, the  *)
(*           dot products of the last vector iteration and the two scalars *)
(*           the reduction produced                                        *)
(***************************************************************************)
VARIABLES memory, call, pc, frame, out, writes, hist

vars == <<memory, call, pc, frame, out, writes, hist>>

Calls == DOMAIN call

\* mutant: the locals are static, one frame for all invocations of a variant
FrameOfMut(p) == CHOOSE q \in Calls : call[q].variant = call[p].variant

\* the locals are automatic: every invocation has a frame of its own
FrameOf(p) == p

Fr(p) == frame[FrameOf(p)]

NoHist == [reads |-> <<>>, order |-> <<>>, divs |-> 0, dp |-> <<>>, red |-> <<>>]

\* relative indices of the floats one vector iteration loads, in load order
VecReads(c, fr) ==
    [j \in 1..(Unroll(c.variant) * Width(c.variant)) |->
        fr.aPtr - c.inputBuffer
            + ((j - 1) \div Width(c.variant)) * Advance(c.variant)
            + ((j - 1) % Width(c.variant))]

\* mutant: num_points = 0 returns at once, before the two stores
EnterMut(p) ==
    /\ pc[p] = "entry"
    /\ frame' = [frame EXCEPT ![FrameOf(p)] =
                    IF HasPoints(call[p].num_points)
                    THEN EnterFrame(call[p])
                    ELSE IdleFrame(call[p])]
    /\ pc' = [pc EXCEPT ![p] =
                    IF ~HasPoints(call[p].num_points) THEN "done"
                    ELSE IF Vectorized(call[p].variant) THEN "vecloop"
                    ELSE "tail"]
    /\ UNCHANGED <<memory, call, out, writes, hist>>

Enter(p) ==
    /\ pc[p] = "entry"
    /\ frame' = [frame EXCEPT ![FrameOf(p)] =
                    IF HasPoints(call[p].num_points)
                    THEN EnterFrame(call[p])
                    ELSE IdleFrame(call[p])]
    /\ pc' = [pc EXCEPT ![p] =
                    IF ~HasPoints(call[p].num_points) THEN "wr_stddev"
                    ELSE IF Vectorized(call[p].variant) THEN "vecloop"
                    ELSE "tail"]
    /\ UNCHANGED <<memory, call, out, writes, hist>>

VecIter(p) ==
    /\ pc[p] = "vecloop"
    /\ Fr(p).number < Groups(call[p].variant, call[p].num_points)
    /\ frame' = [frame EXCEPT ![FrameOf(p)] = VecBody(call[p], @, memory)]
    /\ hist' = [hist EXCEPT ![p].reads = @ \o VecReads(call[p], Fr(p)),
                            ![p].order = Append(@, "vec"),
                            ![p].dp = IF UsesDp(call[p].variant)
                                      THEN DpResults(call[p], Fr(p), memory)
                                      ELSE @]
    /\ UNCHANGED <<memory, call, pc, out, writes>>

Reduce(p) ==
    /\ pc[p] = "vecloop"
    /\ ~(Fr(p).number < Groups(call[p].variant, call[p].num_points))
    /\ frame' = [frame EXCEPT ![FrameOf(p)] = ReduceFrame(call[p], @)]
    /\ pc' = [pc EXCEPT ![p] = "tail"]
    /\ hist' = [hist EXCEPT ![p].order = Append(@, "reduce"),
                            ![p].red = <<ReduceFrame(call[p], Fr(p)).newMean,
                                         ReduceFrame(call[p], Fr(p)).stdDev>>]
    /\ UNCHANGED <<memory, call, out, writes>>

TailIter(p) ==
    /\ pc[p] = "tail"
    /\ Fr(p).number < call[p].num_points
    /\ frame' = [frame EXCEPT ![FrameOf(p)] = TailBody(call[p], @, memory)]
    /\ hist' = [hist EXCEPT ![p].reads = Append(@, Fr(p).aPtr - call[p].inputBuffer),
                            ![p].order = Append(@, "tail")]
    /\ UNCHANGED <<memory, call, pc, out, writes>>

Moments(p) ==
    /\ pc[p] = "tail"
    /\ ~(Fr(p).number < call[p].num_points)
    /\ frame' = [frame EXCEPT ![FrameOf(p)] = MomentsFrame(call[p], @)]
    /\ pc' = [pc EXCEPT ![p] = "sqrt"]
    /\ hist' = [hist EXCEPT ![p].divs = @ + 2]
    /\ UNCHANGED <<memory, call, out, writes>>

Sqrt(p) ==
    /\ pc[p] = "sqrt"
    /\ frame' = [frame EXCEPT ![FrameOf(p)] = SqrtFrame(@)]
    /\ pc' = [pc EXCEPT ![p] = "wr_stddev"]
    /\ UNCHANGED <<memory, call, out, writes, hist>>

WriteStddev(p) ==
    /\ pc[p] = "wr_stddev"
    /\ out' = [out EXCEPT ![call[p].stddev] = Fr(p).stdDev]
    /\ writes' = [writes EXCEPT ![call[p].stddev] = @ + 1]
    /\ pc' = [pc EXCEPT ![p] = "wr_mean"]
    /\ UNCHANGED <<memory, call, frame, hist>>

WriteMean(p) ==
    /\ pc[p] = "wr_mean"
    /\ out' = [out EXCEPT ![call[p].mean] = Fr(p).newMean]
    /\ writes' = [writes EXCEPT ![call[p].mean] = @ + 1]
    /\ pc' = [pc EXCEPT ![p] = "done"]
    /\ UNCHANGED <<memory, call, frame, hist>>

Next ==
    \/ \E p \in Calls : Enter(p)
    \/ \E p \in Calls : VecIter(p)
    \/ \E p \in Calls : Reduce(p)
    \/ \E p \in Calls : TailIter(p)
    \/ \E p \in Calls : Moments(p)
    \/ \E p \in Calls : Sqrt(p)
    \/ \E p \in Calls : WriteStddev(p)
    \/ \E p \in Calls : WriteMean(p)

\* the invocations cs over memory mem, none of them started
Start(mem, cs) ==
    /\ memory = mem
    /\ call = cs
    /\ pc = [p \in DOMAIN cs |-> "entry"]
    /\ frame = [p \in DOMAIN cs |-> IdleFrame(cs[p])]
    /\ out = [a \in 1..(2 * Len(cs)) |-> Poison]
    /\ writes = [a \in 1..(2 * Len(cs)) |-> 0]
    /\ hist = [p \in DOMAIN cs |-> NoHist]

NewCall(v, n, off, p) ==
    [variant |-> v, num_points |-> n, inputBuffer |-> off,
     stddev |-> 2 * p - 1, mean |-> 2 * p]

\* one invocation on a buffer of exactly num_points floats
Init ==
    \E v \in Variants, pat \in Patterns, n \in 0..MaxN \cup {RampEdge, RampEdge + 1} :
        /\ n > MaxN => pat = <<"ramp", 0>>
        /\ Start([i \in 0..(n - 1) |-> Sample(pat, i)], <<NewCall(v, n, 0, 1)>>)

Spec == Init /\ [][Next]_vars

(***************************************************************************)
(* Two invocations running concurrently over one memory: any two variants, *)
(* buffers that coincide, overlap or are disjoint, separate outputs.  The  *)
(* aligned variants are only ever given an aligned inputBuffer.            *)
(***************************************************************************)
ConcSmallN == 5

ConcBigN == 33

ConcOffsets == {0, 1, 8}

\* the two invocations are interchangeable: only one order of each pair is started
Rank(v, n, o) ==
    100 * n + 10 * o
        + (CASE v = "generic" -> 0 [] v = "a_sse" -> 1 [] v = "a_sse4_1" -> 2
             [] v = "a_avx" -> 3 [] v = "u_avx" -> 4)

InitConc ==
    \E v1 \in Variants, v2 \in Variants,
       n1 \in {0, ConcSmallN, ConcBigN}, n2 \in {0, ConcSmallN, ConcBigN},
       o1 \in ConcOffsets, o2 \in ConcOffsets :
        /\ o1 % Alignment(v1) = 0
        /\ o2 % Alignment(v2) = 0
        /\ Rank(v1, n1, o1) <= Rank(v2, n2, o2)
        /\ Start([i \in 0..(ConcBigN + 7) |-> Sample(<<"mixed", 0>>, i)],
                 <<NewCall(v1, n1, o1, 1), NewCall(v2, n2, o2, 2)>>)

SpecConc == InitConc /\ [][Next]_vars

\* one invocation that is never suspended for ever; how long it runs depends
\* on the variant and on num_points, not on what the floats are
InitLive ==
    \E v \in Variants, pat \in {<<"ramp", 0>>, <<"tenth", 0>>}, n \in 0..MaxN :
        Start([i \in 0..(n - 1) |-> Sample(pat, i)], <<NewCall(v, n, 0, 1)>>)

SpecLive == InitLive /\ [][Next]_vars /\ WF_vars(Next)

(***************************************************************************)
(* Vocabulary of the properties.                                           *)
(***************************************************************************)
Buf(p, i) == memory[call[p].inputBuffer + i]

N(p) == call[p].num_points

\* the tail loop (the only loop of generic) has just exited
TailDone(p) == pc[p] = "tail" /\ ~(Fr(p).number < N(p))

\* both loops are behind the invocation
AfterLoops(p) == N(p) > 0 /\ pc[p] \in {"sqrt", "wr_stddev", "wr_mean", "done"}

Count(seq, x) == Cardinality({j \in DOMAIN seq : seq[j] = x})

IsFinite(f) == Abs(f) < InfBits

\* f * 2^k is an integer, and that integer
IsScaledInt(f, k) ==
    IsFinite(f) /\ (f = 0 \/ Exp(f) + k >= 0 \/ Mant(f) % 2^(-(Exp(f) + k)) = 0)

ScaledFloor(f, k) ==
    IF f = 0 THEN 0
    ELSE IF Exp(f) + k >= 0 THEN Sgn(f) * Mant(f) * 2^(Exp(f) + k)
    ELSE IF Exp(f) + k < -30 THEN 0
    ELSE Sgn(f) * (Mant(f) \div 2^(-(Exp(f) + k)))

\* an integer below 2^30
IsInt(f) == IsScaledInt(f, 0) /\ Abs(f) < 157 * Hidden

IntVal(f) == ScaledFloor(f, 0)

\* sums, in the integers, of the samples whose indices are idx[a..b]
RECURSIVE SumAt(_, _, _, _)
SumAt(p, idx, a, b) ==
    IF a > b THEN 0 ELSE SumAt(p, idx, a, b - 1) + IntVal(Buf(p, idx[b]))

RECURSIVE SumSqAt(_, _, _, _)
SumSqAt(p, idx, a, b) ==
    IF a > b THEN 0
    ELSE SumSqAt(p, idx, a, b - 1) + IntVal(Buf(p, idx[b])) * IntVal(Buf(p, idx[b]))

\* the same over the samples 0 .. n-1
RECURSIVE SumTo(_, _)
SumTo(p, n) == IF n = 0 THEN 0 ELSE SumTo(p, n - 1) + IntVal(Buf(p, n - 1))

RECURSIVE SumSqTo(_, _)
SumSqTo(p, n) ==
    IF n = 0 THEN 0 ELSE SumSqTo(p, n - 1) + IntVal(Buf(p, n - 1)) * IntVal(Buf(p, n - 1))

RECURSIVE SumAbsTo(_, _)
SumAbsTo(p, n) == IF n = 0 THEN 0 ELSE SumAbsTo(p, n - 1) + Abs(IntVal(Buf(p, n - 1)))

\* every sample is an integer and no partial sum of samples or of squares
\* can leave the range in which binary32 holds every integer
ExactBuffer(p) ==
    /\ \A i \in 0..(N(p) - 1) : IsInt(Buf(p, i)) /\ Abs(IntVal(Buf(p, i))) <= 2^12
    /\ SumAbsTo(p, N(p)) <= 2^24
    /\ SumSqTo(p, N(p)) <= 2^24

IsRamp(p, s) == \A i \in 0..(N(p) - 1) : Buf(p, i) = IntToFloat[i + s]

IsConst(p) == \A i \in 0..(N(p) - 1) : Buf(p, i) = Buf(p, 0)

(***************************************************************************)
(* Properties.                                                             *)
(***************************************************************************)

\* C1: a call with num_points = 0, in any variant, stores 0 to *stddev and 0
\* to *mean, each once, and gets there without a vector-loop iteration, a
\* reduction, a tail iteration, a read of the input or a division.

C1_ZeroLength ==
    \A p \in Calls :
        N(p) = 0 =>
            /\ hist[p] = NoHist
            /\ pc[p] \in {"entry", "wr_stddev", "wr_mean", "done"}
            /\ pc[p] = "done" =>
                /\ out[call[p].stddev] = 0 /\ out[call[p].mean] = 0
                /\ writes[call[p].stddev] = 1 /\ writes[call[p].mean] = 1

C1_Witness ==
    \E p \in Calls :
        /\ N(p) = 0 /\ call[p].variant = "a_avx" /\ pc[p] = "done"
        /\ out[call[p].stddev] = 0 /\ out[call[p].mean] = 0

\* C2: when the samples are integers small enough for every addition to be
\* exact, a vectorized variant leaves its tail loop with the sum and the sum
\* of squares that the generic variant leaves its loop with on the same
\* buffer and num_points.
C2_SameTotalsAsGeneric ==
    \A p \in Calls :
        (Vectorized(call[p].variant) /\ TailDone(p) /\ ExactBuffer(p)) =>
            LET g == Totals([call[p] EXCEPT !.variant = "generic"], memory)
            IN  Fr(p).newMean = g.newMean /\ Fr(p).stdDev = g.stdDev

\* two full groups and one tail sample in the widest variant, on a buffer
\* whose sum is not zero
C2_Witness ==
    \E p \in Calls :
        /\ call[p].variant = "a_avx" /\ N(p) = 65 /\ TailDone(p) /\ ExactBuffer(p)
        /\ Fr(p).newMean # 0 /\ Fr(p).stdDev # 0
        /\ Count(hist[p].order, "vec") = 2 /\ Count(hist[p].order, "tail") = 1

\* lane width and unroll factor as the specification gives them: U = 1 for
\* every width-4 variant, U = 4 for every width-8 variant
SpecWidth(v) == IF v \in {"a_avx", "u_avx"} THEN 8 ELSE 4

SpecUnroll(v) == IF SpecWidth(v) = 4 THEN 1 ELSE 4

\* as they are: a_sse4_1 is 4 wide and unrolled 4 times
CodeUnroll(v) == IF v = "a_sse" THEN 1 ELSE 4

LoopCounts(p, g) ==
    /\ Count(hist[p].order, "vec") = N(p) \div g
    /\ Len(hist[p].reads) - Count(hist[p].order, "tail") = (N(p) \div g) * g
    /\ Count(hist[p].order, "tail") = N(p) % g

\* C3 as claimed: with U = 1 for the width-4 variants and U = 4 for the
\* width-8 variants, the vector loop runs N div (U*W) iterations over
\* (N div (U*W)) * U*W samples and the tail loop runs over N mod (U*W).
C3_AsClaimed ==
    \A p \in Calls :
        (Vectorized(call[p].variant) /\ AfterLoops(p)) =>
            LoopCounts(p, SpecUnroll(call[p].variant) * SpecWidth(call[p].variant))

\* C3 amended: the same with U = 1 for a_sse only and U = 4 for a_sse4_1
\* (width 4) as for the two AVX variants (width 8).
C3_GroupCounts ==
    \A p \in Calls :
        (Vectorized(call[p].variant) /\ AfterLoops(p)) =>
            LoopCounts(p, CodeUnroll(call[p].variant) * SpecWidth(call[p].variant))

C3_Witness ==
    \E p \in Calls :
        /\ call[p].variant = "a_sse4_1" /\ N(p) = 33 /\ pc[p] = "done"
        /\ Count(hist[p].order, "vec") = 2 /\ Count(hist[p].order, "tail") = 1

\* the lanes that the k-th dot product of an iteration writes
TargetLanes(k, w) == {l \in 1..w : (l - 1) % 4 = k - 1}

\* C4: in a_sse4_1, a_avx and u_avx the four dot products of an iteration
\* leave their sums in pairwise disjoint lanes and zero everywhere else, the
\* OR merge holds in every lane exactly the one sum written there, and on
\* exact integer samples the sum of squares at the end of the tail loop is
\* the sum over i < N of sample i squared: each square counted once.
C4_SquaresOnce ==
    \A p \in Calls :
        UsesDp(call[p].variant) =>
            /\ hist[p].dp # <<>> =>
                \A k \in 1..4 : \A l \in 1..Width(call[p].variant) :
                    /\ l \notin TargetLanes(k, Width(call[p].variant)) => hist[p].dp[k][l] = 0
                    /\ l \in TargetLanes(k, Width(call[p].variant)) =>
                          /\ MergeDp(hist[p].dp)[l] = hist[p].dp[k][l]
                          /\ \A j \in 1..4 : j # k => hist[p].dp[j][l] = 0
            /\ (TailDone(p) /\ ExactBuffer(p)) =>
                /\ IsInt(Fr(p).stdDev)
                /\ IntVal(Fr(p).stdDev) = SumSqTo(p, N(p))

\* an iteration whose four dot products are all nonzero, after the tail
C4_Witness ==
    \E p \in Calls :
        /\ call[p].variant = "u_avx" /\ TailDone(p) /\ ExactBuffer(p) /\ N(p) = 64
        /\ \A k \in 1..4 : \A l \in TargetLanes(k, 8) : hist[p].dp[k][l] # 0
        /\ IntVal(Fr(p).stdDev) = SumSqTo(p, N(p))

\* the sum of squares of 0 .. n-1 fits the integers binary32 holds exactly
ExactRamp(n) == ((n - 1) * n * (2 * n - 1)) \div 6 <= 2^24

\* v is (n^2 - 1) / 12 to a relative 1e-5 (and the floor of the scaling)
VarClose(v, n) ==
    /\ IsFinite(v)
    /\ Abs(12 * ScaledFloor(v, 13) - 2^13 * (n * n - 1)) <= 13 + (n * n - 1) \div 12

\* the sum S and the sum of squares Q of 0 .. n-1; given 2S = n(n-1), the
\* second equation is 12(nQ - S^2) = n^2(n^2 - 1) divided through by 2n
RampTotals(fr, n) ==
    /\ IsInt(fr.newMean) /\ IsInt(fr.stdDev)
    /\ 2 * IntVal(fr.newMean) = n * (n - 1)
    /\ 6 * IntVal(fr.stdDev) = n * (n - 1) * (2 * n - 1)
    /\ n <= 100 =>
          12 * (n * IntVal(fr.stdDev) - IntVal(fr.newMean) * IntVal(fr.newMean))
              = n * n * (n * n - 1)

\* C5 as claimed: on the buffer 0, 1, ..., N-1 every variant, for every
\* N > 0, ends its loops with 2S = N(N-1) and 12(NQ - S^2) = N^2(N^2 - 1).
C5_AsClaimed ==
    \A p \in Calls :
        (N(p) > 0 /\ IsRamp(p, 0) /\ TailDone(p)) => RampTotals(Fr(p), N(p))

\* C5 amended: the equations hold while the sum of squares (N-1)N(2N-1)/6
\* is at most 2^24, that is for N <= 369; there the mean is (N-1)/2 exactly
\* and the value under the square root, and the square of the stddev
\* stored, are (N^2 - 1)/12 to within rounding (divisor N, not N-1).  The
\* buffer 1, 2, 3, 4 gives mean 2.5, variance 1.25 and stddev sqrtf(1.25).
C5_Progression ==
    \A p \in Calls :
        /\ (N(p) > 0 /\ IsRamp(p, 0) /\ ExactRamp(N(p))) =>
              /\ TailDone(p) => RampTotals(Fr(p), N(p))
              /\ pc[p] = "sqrt" =>
                    /\ IsScaledInt(Fr(p).newMean, 1)
                    /\ ScaledFloor(Fr(p).newMean, 1) = N(p) - 1
                    /\ VarClose(Fr(p).stdDev, N(p))
              /\ pc[p] = "done" =>
                    /\ IsScaledInt(out[call[p].mean], 1)
                    /\ ScaledFloor(out[call[p].mean], 1) = N(p) - 1
                    /\ VarClose(FMul[out[call[p].stddev], out[call[p].stddev]], N(p))
        /\ (N(p) = 4 /\ IsRamp(p, 1)) =>
              /\ pc[p] = "sqrt" =>
                    /\ Fr(p).newMean = 128 * 2^23 + 2^21
                    /\ Fr(p).stdDev = 127 * 2^23 + 2^21
              /\ pc[p] = "done" =>
                    /\ out[call[p].mean] = 128 * 2^23 + 2^21
                    /\ out[call[p].stddev] = 127 * 2^23 + 990141

\* the longest progression whose totals are exact, through the scalar loop
C5_Witness ==
    \E p \in Calls :
        /\ call[p].variant = "generic" /\ N(p) = 369 /\ IsRamp(p, 0) /\ pc[p] = "done"
        /\ ScaledFloor(out[call[p].mean], 1) = 368
        /\ VarClose(FMul[out[call[p].stddev], out[call[p].stddev]], 369)

\* C6: a buffer of N > 0 copies of any value c gives mean = c and
\* stddev = 0 in every variant.  The code has no clamp before the square
\* root: with c = 0.1f the rounded sums leave a value under the root that is
\* below zero, and the stddev stored is NaN.
C6_AsClaimed ==
    \A p \in Calls :
        (N(p) > 0 /\ pc[p] = "done" /\ IsConst(p)) =>
            out[call[p].mean] = Buf(p, 0) /\ out[call[p].stddev] = 0

\* C7: invocations interleaved in any order, on the same or overlapping
\* input with outputs of their own, each store what they store when run
\* alone; the input is left as it was.
C7_NoInterference ==
    /\ \A p \in Calls :
        /\ writes[call[p].stddev] >= 1 => out[call[p].stddev] = Result(call[p], memory).stdDev
        /\ writes[call[p].mean] >= 1 => out[call[p].mean] = Result(call[p], memory).newMean
    /\ \A i \in DOMAIN memory : memory[i] = Sample(<<"mixed", 0>>, i)

\* two different vectorized variants on overlapping buffers, both returned,
\* with different results
C7_Witness ==
    \E p \in Calls, q \in Calls :
        /\ p # q /\ pc[p] = "done" /\ pc[q] = "done"
        /\ call[p].variant = "a_sse" /\ call[q].variant = "u_avx"
        /\ N(p) = ConcSmallN /\ N(q) = ConcBigN
        /\ call[p].inputBuffer = 8 /\ call[q].inputBuffer = 1
        /\ out[call[p].mean] # out[call[q].mean]
        /\ out[call[p].stddev] # Poison /\ out[call[q].stddev] # Poison

AllDone == \A p \in Calls : pc[p] = "done"

WrittenOnce ==
    \A p \in Calls :
        /\ writes[call[p].stddev] <= 1 /\ writes[call[p].mean] <= 1
        /\ pc[p] = "done" => writes[call[p].stddev] = 1 /\ writes[call[p].mean] = 1

\* C8: every invocation, of any variant and any N >= 0, eventually returns,
\* and when it has returned *stddev and *mean have each been stored to
\* exactly once.
C8_Terminates == <>AllDone /\ []WrittenOnce

C8_Witness ==
    \E p \in Calls :
        /\ pc[p] = "done" /\ call[p].variant = "a_sse4_1" /\ N(p) = 17
        /\ writes[call[p].stddev] = 1 /\ writes[call[p].mean] = 1
        /\ Count(hist[p].order, "vec") = 1 /\ Count(hist[p].order, "tail") = 1

PhaseRank(e) == CASE e = "vec" -> 1 [] e = "reduce" -> 2 [] e = "tail" -> 3

VecCount(p) == Len(hist[p].reads) - Count(hist[p].order, "tail")

\* C9: in a vectorized variant with N > 0 the lane accumulators are reduced
\* once, after the last vector iteration and before the first tail
\* iteration; the two scalars the reduction yields are the sums over the
\* samples the vector loop loaded, and the tail loop adds its samples to
\* those two scalars (exact integer samples).
C9_ReduceOnce ==
    \A p \in Calls :
        Vectorized(call[p].variant) =>
            /\ \A i \in 1..(Len(hist[p].order) - 1) :
                  PhaseRank(hist[p].order[i]) <= PhaseRank(hist[p].order[i + 1])
            /\ Count(hist[p].order, "reduce") <= 1
            /\ (pc[p] = "tail" \/ AfterLoops(p)) => Count(hist[p].order, "reduce") = 1
            /\ (/\ pc[p] = "tail"
                /\ TailDone(p) \/ hist[p].order[Len(hist[p].order)] = "reduce"
                /\ ExactBuffer(p)) =>
                  /\ IsInt(hist[p].red[1]) /\ IsInt(hist[p].red[2])
                  /\ IntVal(hist[p].red[1]) = SumAt(p, hist[p].reads, 1, VecCount(p))
                  /\ IntVal(hist[p].red[2]) = SumSqAt(p, hist[p].reads, 1, VecCount(p))
                  /\ IntVal(Fr(p).newMean) = IntVal(hist[p].red[1])
                        + SumAt(p, hist[p].reads, VecCount(p) + 1, Len(hist[p].reads))
                  /\ IntVal(Fr(p).stdDev) = IntVal(hist[p].red[2])
                        + SumSqAt(p, hist[p].reads, VecCount(p) + 1, Len(hist[p].reads))

\* a reduction with nonzero sums followed by a tail that changes both
C9_Witness ==
    \E p \in Calls :
        /\ call[p].variant = "a_sse" /\ N(p) = 7 /\ TailDone(p) /\ ExactBuffer(p)
        /\ hist[p].order = <<"vec", "reduce", "tail", "tail", "tail">>
        /\ hist[p].red[1] # 0 /\ Fr(p).newMean # hist[p].red[1]
        /\ hist[p].red[2] # 0 /\ Fr(p).stdDev # hist[p].red[2]

\* C10: every read of the input, by a vector load or by the tail loop, is
\* of an index in [0, N); the indices read are 0, 1, 2, ... in that order,
\* and when the loops are done each index below N has been read once.
C10_ReadsInBounds ==
    \A p \in Calls :
        /\ \A j \in DOMAIN hist[p].reads : hist[p].reads[j] = j - 1
        /\ Len(hist[p].reads) <= N(p)
        /\ (TailDone(p) \/ AfterLoops(p)) => Len(hist[p].reads) = N(p)

\* one index short of two full groups: the last group goes to the tail loop
C10_Witness ==
    \E p \in Calls :
        /\ call[p].variant = "a_avx" /\ N(p) = 63 /\ pc[p] = "done"
        /\ Len(hist[p].reads) = 63
        /\ Count(hist[p].order, "vec") = 1 /\ Count(hist[p].order, "tail") = 31

====
